---- MODULE Spec2Model ----
(***************************************************************************)
(* Root-finding routines of utils.py: incremental_search, bisection,      *)
(* false_position, newton_raphson, secant and modified_secant.             *)
(*                                                                         *)
(* One behaviour of the model is one call of one routine.  Init is the     *)
(* state at the first evaluation of the routine's `while` test, after the  *)
(* statements that precede the loop.  Each action is one pass through a    *)
(* loop (test, body, and the return or break the body ends in) or the      *)
(* exit taken when the test fails.                                         *)
(*                                                                         *)
(* Numbers are exact rationals <<n, d>> in lowest terms with d > 0: the    *)
(* arithmetic is that of Python's int and Fraction arguments, and of       *)
(* float arguments wherever no rounding occurs.  Rounding of IEEE doubles  *)
(* is not modelled.                                                        *)
(***************************************************************************)
EXTENDS Integers, Sequences, FiniteSets, TLC

VARIABLES method, f, f_der, lb, ub, increment_length, x0, x1, dx, x,
          threshold, max_iterations, iteration, number_of_roots, intervals,
          pc, result, args, visited

vars == <<method, f, f_der, lb, ub, increment_length, x0, x1, dx, x,
          threshold, max_iterations, iteration, number_of_roots, intervals,
          pc, result, args, visited>>

(***************************************************************************)
(* Bounds of the model.                                                    *)
(***************************************************************************)
\* largest max_iterations argument tried
MaxIter == 3
\* cap on the number of scan steps of a call that would never return
MaxSamples == 17

(***************************************************************************)
(* Exact rational arithmetic.                                              *)
(***************************************************************************)
Abs(n) == IF n < 0 THEN -n ELSE n

RECURSIVE GCD(_, _)
GCD(a, b) == IF b = 0 THEN a ELSE GCD(b, a % b)

\* Each operator binds its operands once (a \in {p}) before using them.
Norm(n, d) ==
    CHOOSE r \in { <<n \div g, d \div g>> : g \in {GCD(Abs(n), d)} } : TRUE

Rat(n, d) == Norm(n, d)

Zero == <<0, 1>>

RNeg(p) == CHOOSE r \in { <<-a[1], a[2]>> : a \in {p} } : TRUE

RAdd(p, q) ==
    LET Sum(a, b, g) ==
            Norm(a[1] * (b[2] \div g) + b[1] * (a[2] \div g),
                 (a[2] \div g) * b[2])
    IN  CHOOSE r \in { Sum(a, b, GCD(a[2], b[2])) : a \in {p}, b \in {q} } : TRUE

RSub(p, q) == RAdd(p, RNeg(q))

RMul(p, q) ==
    LET Prod(a, b, g1, g2) ==
            <<(a[1] \div g1) * (b[1] \div g2), (a[2] \div g2) * (b[2] \div g1)>>
        Reduced(a, b) ==
            CHOOSE r \in { Prod(a, b, g1, g2) : g1 \in {GCD(Abs(a[1]), b[2])},
                                                g2 \in {GCD(Abs(b[1]), a[2])} } :
                TRUE
    IN  CHOOSE r \in { Reduced(a, b) : a \in {p}, b \in {q} } : TRUE

RInv(p) ==
    CHOOSE r \in { IF a[1] > 0 THEN <<a[2], a[1]>> ELSE <<-a[2], -a[1]>> :
                   a \in {p} } : TRUE

Sign(p) ==
    CHOOSE r \in { IF a[1] > 0 THEN 1 ELSE IF a[1] < 0 THEN -1 ELSE 0 :
                   a \in {p} } : TRUE

RLt(p, q) == Sign(RSub(p, q)) < 0

RLe(p, q) == Sign(RSub(p, q)) <= 0

(***************************************************************************)
(* Python's `/`: a zero divisor raises ZeroDivisionError, which no routine *)
(* catches, so it ends the call.  The marker is not a rational (d = 0).    *)
(***************************************************************************)
ZeroDivisionError == <<0, 0>>

TrueDivNoRaise(a, b) ==
    CHOOSE r \in { IF d = Zero THEN Zero ELSE RMul(a, RInv(d)) : d \in {b} } :
        TRUE

TrueDiv(a, b) ==
    CHOOSE r \in { IF d = Zero THEN ZeroDivisionError ELSE RMul(a, RInv(d)) :
                   d \in {b} } : TRUE

(***************************************************************************)
(* The target functions: polynomials with integer coefficients, highest    *)
(* degree first, evaluated by Horner's rule.                               *)
(***************************************************************************)
RECURSIVE Horner(_, _, _, _)
Horner(c, i, acc, v) ==
    IF i > Len(c) THEN acc
    ELSE Horner(c, i + 1, RAdd(RMul(acc, v), <<c[i], 1>>), v)

F(c, v) == CHOOSE r \in { Horner(c, 1, Zero, a) : a \in {v} } : TRUE

\* f of main.py: x**2 - 7*x + 10, roots 2 and 5
Quadratic == <<1, -7, 10>>
\* x**2 + 1, no real root
NoRoot == <<1, 0, 1>>
\* x**2 - 4*x + 4, double root 2
DoubleRoot == <<1, -4, 4>>
\* x**3 - 2*x + 2, on which Newton-Raphson cycles 0, 1, 0, ...
Cubic == <<1, 0, -2, 2>>

\* the derivative polynomial (f_der of main.py is that of f)
Derivative(c) == [i \in 1..(Len(c) - 1) |-> (Len(c) - i) * c[i]]


(***************************************************************************)
(* Outcomes of a call.                                                     *)
(***************************************************************************)
Pending == [kind |-> "pending", val |-> Zero]
\* `return None`
None == [kind |-> "None", val |-> Zero]
\* `return mid`, `return x_r`, `return x`
Value(v) == [kind |-> "value", val |-> v]
\* an uncaught ZeroDivisionError
Raised == [kind |-> "ZeroDivisionError", val |-> Zero]
\* `return number_of_roots, intervals`
Tuple == [kind |-> "tuple", val |-> Zero]

(***************************************************************************)
(* Steps shared by the routines.                                           *)
(***************************************************************************)
\* -threshold < f(x) < threshold
ConvergedUpperOnly(y, thr) == RLt(y, thr)

Converged(y, thr) == RLt(RNeg(thr), y) /\ RLt(y, thr)

\* if iteration > max_iterations: break
CapReachedAt(it, mx) == it >= mx

CapReached(it, mx) == it > mx

\* f(a) * f(b) < 0
SignChange(ya, yb) == Sign(RMul(ya, yb)) < 0

\* mid = (lb + ub) / 2
Mid(l, u) == RMul(RAdd(l, u), <<1, 2>>)

\* the elif chain that narrows the bracket around the estimate e
RebracketSwapped(ff, l, u, e) ==
    IF SignChange(F(ff, l), F(ff, e)) THEN <<e, u>>
    ELSE IF SignChange(F(ff, u), F(ff, e)) THEN <<l, e>>
    ELSE <<l, u>>

Rebracket(ff, l, u, e) ==
    IF SignChange(F(ff, l), F(ff, e)) THEN <<l, e>>
    ELSE IF SignChange(F(ff, u), F(ff, e)) THEN <<e, u>>
    ELSE <<l, u>>

\* x_r = ub - f(ub) * (lb - ub) / (f(lb) - f(ub))
FalsePositionEstimate(ff, l, u) ==
    CHOOSE r \in { IF q = ZeroDivisionError THEN q ELSE RSub(u, q) :
                   q \in {TrueDiv(RMul(F(ff, u), RSub(l, u)),
                                  RSub(F(ff, l), F(ff, u)))} } : TRUE

\* x = x - f(x)/f_der(x)
NewtonEstimate(ff, fd, v) ==
    CHOOSE r \in { IF q = ZeroDivisionError THEN q ELSE RSub(v, q) :
                   q \in {TrueDiv(F(ff, v), F(fd, v))} } : TRUE

\* x = x1 - f(x1) * (x1 - x0) / (f(x1) - f(x0))
SecantEstimate(ff, a0, a1) ==
    CHOOSE r \in { IF q = ZeroDivisionError THEN q ELSE RSub(a1, q) :
                   q \in {TrueDiv(RMul(F(ff, a1), RSub(a1, a0)),
                                  RSub(F(ff, a1), F(ff, a0)))} } : TRUE

\* x = x0 - f(x0) * dx / (f(x0 + dx) - f(x0))
ModifiedSecantEstimate(ff, a0, d) ==
    CHOOSE r \in { IF q = ZeroDivisionError THEN q ELSE RSub(a0, q) :
                   q \in {TrueDiv(RMul(F(ff, a0), d),
                                  RSub(F(ff, RAdd(a0, d)), F(ff, a0)))} } : TRUE

\* lb += increment_length
ScanAdvanceGuarded(l, inc) == RAdd(l, IF Sign(inc) < 0 THEN RNeg(inc) ELSE inc)

ScanAdvance(l, inc) == RAdd(l, inc)

\* while lb <= ub (incremental_search)
ScanCondStrict(l, u) == RLt(l, u)

ScanCond(l, u) == RLe(l, u)

(***************************************************************************)
(* Arguments tried.  Thresholds are tolerances, hence positive.            *)
(***************************************************************************)
ScanFuncs == {Quadratic, DoubleRoot, NoRoot}

\* <<lb, ub, increment_length>>; the first is the call of main.py
ScanInputs ==
    { <<Rat(-4, 1), Rat(8, 1), Rat(4, 5)>>,
      <<Rat(0, 1), Rat(4, 1), Rat(1, 1)>>,
      <<Rat(0, 1), Rat(6, 1), Rat(2, 1)>>,
      <<Rat(2, 1), Rat(2, 1), Rat(4, 1)>>,
      <<Rat(1, 1), Rat(3, 1), Rat(1, 2)>>,
      <<Rat(3, 1), Rat(1, 1), Rat(1, 1)>>,
      <<Rat(0, 1), Rat(2, 1), Rat(0, 1)>>,
      <<Rat(0, 1), Rat(2, 1), Rat(-1, 1)>>,
      <<Rat(3, 1), Rat(1, 1), Rat(-1, 1)>> }

BracketFuncs == {Quadratic, DoubleRoot, NoRoot}

\* <<lb, ub>>; the first two are the intervals the scan of main.py finds
BracketInputs ==
    { <<Rat(8, 5), Rat(12, 5)>>, <<Rat(24, 5), Rat(28, 5)>>,
      <<Rat(1, 1), Rat(5, 2)>>, <<Rat(1, 1), Rat(3, 1)>>,
      <<Rat(4, 1), Rat(11, 2)>>,
      <<Rat(2, 1), Rat(3, 1)>>, <<Rat(1, 1), Rat(2, 1)>>,
      <<Rat(2, 1), Rat(5, 1)>>, <<Rat(3, 1), Rat(4, 1)>>,
      <<Rat(5, 2), Rat(3, 1)>>, <<Rat(0, 1), Rat(1, 1)>>,
      <<Rat(3, 1), Rat(1, 1)>> }

\* 1e-3 is the default threshold; the coarser ones keep the estimates of the
\* interpolating methods short
BracketThresholds == {Rat(1, 1000), Rat(1, 10), Rat(3, 1)}

OpenThresholds == {Rat(1, 10), Rat(3, 1)}

\* <<f, x0>>
NewtonInputs ==
    { <<Quadratic, Rat(2, 1)>>, <<Quadratic, Rat(26, 5)>>,
      <<Quadratic, Rat(7, 2)>>, <<Quadratic, Rat(3, 1)>>,
      <<NoRoot, Rat(1, 1)>>, <<NoRoot, Rat(0, 1)>>,
      <<Cubic, Rat(0, 1)>>, <<Cubic, Rat(1, 1)>> }

\* <<f, x0, x1>>
SecantInputs ==
    { <<Quadratic, Rat(8, 5), Rat(12, 5)>>, <<Quadratic, Rat(24, 5), Rat(28, 5)>>,
      <<Quadratic, Rat(3, 1), Rat(4, 1)>>, <<Quadratic, Rat(1, 1), Rat(1, 1)>>,
      <<NoRoot, Rat(0, 1), Rat(1, 1)>>, <<NoRoot, Rat(0, 1), Rat(2, 1)>>,
      <<DoubleRoot, Rat(0, 1), Rat(1, 1)>> }

\* <<f, x0, dx>>
ModifiedSecantInputs ==
    { <<Quadratic, Rat(8, 5), Rat(1, 10)>>, <<Quadratic, Rat(24, 5), Rat(1, 10)>>,
      <<Quadratic, Rat(3, 1), Rat(1, 1)>>, <<Quadratic, Rat(1, 1), Rat(0, 1)>>,
      <<NoRoot, Rat(0, 1), Rat(1, 1)>>, <<DoubleRoot, Rat(0, 1), Rat(1, 1)>> }

Iterations == 0..MaxIter

(***************************************************************************)
(* The state on entry to the loop of routine m.                            *)
(***************************************************************************)
Start(m, ff, l, u, inc, a0, a1, d, thr, mx) ==
    /\ method = m
    /\ f = ff
    /\ f_der = Derivative(ff)
    /\ lb = l
    /\ ub = u
    /\ increment_length = inc
    /\ x0 = a0
    /\ x1 = a1
    /\ dx = d
    /\ x = a0
    /\ threshold = thr
    /\ max_iterations = mx
    /\ iteration = 0
    /\ number_of_roots = 0
    /\ intervals = <<>>
    /\ pc = "loop"
    /\ result = Pending
    /\ args = [lb |-> l, ub |-> u, x0 |-> a0, x1 |-> a1, dx |-> d]
    /\ visited = <<>>

Init ==
    \/ \E ff \in ScanFuncs, in \in ScanInputs :
          Start("incremental_search", ff, in[1], in[2], in[3],
                Zero, Zero, Zero, Zero, 0)
    \/ \E ff \in BracketFuncs, in \in BracketInputs,
          thr \in BracketThresholds, mx \in Iterations :
          Start("bisection", ff, in[1], in[2], Zero, Zero, Zero, Zero, thr, mx)
    \/ \E ff \in BracketFuncs, in \in BracketInputs,
          thr \in OpenThresholds, mx \in Iterations :
          Start("false_position", ff, in[1], in[2],
                Zero, Zero, Zero, Zero, thr, mx)
    \/ \E in \in NewtonInputs, thr \in OpenThresholds, mx \in Iterations :
          Start("newton_raphson", in[1], Zero, Zero, Zero,
                in[2], Zero, Zero, thr, mx)
    \/ \E in \in SecantInputs, thr \in OpenThresholds, mx \in Iterations :
          Start("secant", in[1], Zero, Zero, Zero, in[2], in[3], Zero, thr, mx)
    \/ \E in \in ModifiedSecantInputs, thr \in BracketThresholds,
          mx \in Iterations :
          Start("modified_secant", in[1], Zero, Zero, Zero,
                in[2], Zero, in[3], thr, mx)

(***************************************************************************)
(* incremental_search                                                      *)
(***************************************************************************)
\* one pass of the while loop
ScanStep ==
    /\ method = "incremental_search"
    /\ pc = "loop"
    /\ ScanCond(lb, ub)
    /\ Len(visited) < MaxSamples
    /\ LET next == RAdd(lb, increment_length)
           hit == F(f, lb) = Zero
           change == SignChange(F(f, lb), F(f, next))
           onHit == IF hit THEN << <<RSub(lb, increment_length), next>> >>
                           ELSE <<>>
           onChange == IF change THEN << <<lb, next>> >> ELSE <<>>
       IN  /\ number_of_roots' = number_of_roots + (IF hit THEN 1 ELSE 0)
                                                 + (IF change THEN 1 ELSE 0)
           /\ intervals' = intervals \o onHit \o onChange
           /\ lb' = ScanAdvance(lb, increment_length)
    /\ visited' = Append(visited, lb)
    /\ UNCHANGED <<method, f, f_der, ub, increment_length, x0, x1, dx, x,
                   threshold, max_iterations, iteration, pc, result, args>>

\* the while test fails: return number_of_roots, intervals
ScanReturn ==
    /\ method = "incremental_search"
    /\ pc = "loop"
    /\ ~ScanCond(lb, ub)
    /\ pc' = "done"
    /\ result' = Tuple
    /\ UNCHANGED <<method, f, f_der, lb, ub, increment_length, x0, x1, dx, x,
                   threshold, max_iterations, iteration, number_of_roots,
                   intervals, args, visited>>

(***************************************************************************)
(* bisection and false_position                                            *)
(***************************************************************************)
\* the body from the convergence test on, for the estimate e
BracketBody(e) ==
    /\ iteration' = iteration + 1
    /\ IF e = ZeroDivisionError
       THEN /\ result' = Raised
            /\ pc' = "done"
            /\ UNCHANGED <<lb, ub>>
       ELSE IF Converged(F(f, e), threshold)
       THEN /\ result' = Value(e)
            /\ pc' = "done"
            /\ UNCHANGED <<lb, ub>>
       ELSE /\ lb' = Rebracket(f, lb, ub, e)[1]
            /\ ub' = Rebracket(f, lb, ub, e)[2]
            /\ IF CapReached(iteration + 1, max_iterations)
               THEN pc' = "done" /\ result' = None
               ELSE pc' = "loop" /\ UNCHANGED result
    /\ UNCHANGED <<method, f, f_der, increment_length, x0, x1, dx, x,
                   threshold, max_iterations, number_of_roots, intervals,
                   args, visited>>

\* the while test fails: return None
BracketExit ==
    /\ ~RLe(lb, ub)
    /\ pc' = "done"
    /\ result' = None
    /\ UNCHANGED <<method, f, f_der, lb, ub, increment_length, x0, x1, dx, x,
                   threshold, max_iterations, iteration, number_of_roots,
                   intervals, args, visited>>

BisectionIter ==
    /\ method = "bisection"
    /\ pc = "loop"
    /\ RLe(lb, ub)
    /\ BracketBody(Mid(lb, ub))

BisectionExit ==
    /\ method = "bisection"
    /\ pc = "loop"
    /\ BracketExit

FalsePositionIter ==
    /\ method = "false_position"
    /\ pc = "loop"
    /\ RLe(lb, ub)
    /\ BracketBody(FalsePositionEstimate(f, lb, ub))

FalsePositionExit ==
    /\ method = "false_position"
    /\ pc = "loop"
    /\ BracketExit

(***************************************************************************)
(* newton_raphson, secant and modified_secant                              *)
(***************************************************************************)
NewtonIter ==
    /\ method = "newton_raphson"
    /\ pc = "loop"
    /\ iteration' = iteration + 1
    /\ LET e == NewtonEstimate(f, f_der, x)
       IN  IF e = ZeroDivisionError
           THEN /\ result' = Raised
                /\ pc' = "done"
                /\ UNCHANGED x
           ELSE /\ x' = e
                /\ IF Converged(F(f, e), threshold)
                   THEN pc' = "done" /\ result' = Value(e)
                   ELSE IF CapReached(iteration + 1, max_iterations)
                   THEN pc' = "done" /\ result' = None
                   ELSE pc' = "loop" /\ UNCHANGED result
    /\ UNCHANGED <<method, f, f_der, lb, ub, increment_length, x0, x1, dx,
                   threshold, max_iterations, number_of_roots, intervals,
                   args, visited>>

SecantIter ==
    /\ method = "secant"
    /\ pc = "loop"
    /\ iteration' = iteration + 1
    /\ LET e == SecantEstimate(f, x0, x1)
       IN  IF e = ZeroDivisionError
           THEN /\ result' = Raised
                /\ pc' = "done"
                /\ UNCHANGED <<x, x0, x1>>
           ELSE /\ x' = e
                /\ IF Converged(F(f, e), threshold)
                   THEN /\ pc' = "done"
                        /\ result' = Value(e)
                        /\ UNCHANGED <<x0, x1>>
                   ELSE IF CapReached(iteration + 1, max_iterations)
                   THEN /\ pc' = "done"
                        /\ result' = None
                        /\ UNCHANGED <<x0, x1>>
                   ELSE /\ pc' = "loop"
                        /\ x0' = x1
                        /\ x1' = e
                        /\ UNCHANGED result
    /\ UNCHANGED <<method, f, f_der, lb, ub, increment_length, dx,
                   threshold, max_iterations, number_of_roots, intervals,
                   args, visited>>

\* the guess the next pass of modified_secant starts from: x0 is not assigned
ModifiedSecantNextGuessUpdated(a0, e) == e

ModifiedSecantNextGuess(a0, e) == a0

ModifiedSecantIter ==
    /\ method = "modified_secant"
    /\ pc = "loop"
    /\ iteration' = iteration + 1
    /\ LET e == ModifiedSecantEstimate(f, x0, dx)
       IN  IF e = ZeroDivisionError
           THEN /\ result' = Raised
                /\ pc' = "done"
                /\ UNCHANGED <<x, x0>>
           ELSE /\ x' = e
                /\ IF Converged(F(f, e), threshold)
                   THEN /\ pc' = "done"
                        /\ result' = Value(e)
                        /\ UNCHANGED x0
                   ELSE IF CapReached(iteration + 1, max_iterations)
                   THEN /\ pc' = "done"
                        /\ result' = None
                        /\ UNCHANGED x0
                   ELSE /\ pc' = "loop"
                        /\ x0' = ModifiedSecantNextGuess(x0, e)
                        /\ UNCHANGED result
    /\ UNCHANGED <<method, f, f_der, lb, ub, increment_length, x1, dx,
                   threshold, max_iterations, number_of_roots, intervals,
                   args, visited>>

Next ==
    \/ ScanStep
    \/ ScanReturn
    \/ BisectionIter
    \/ BisectionExit
    \/ FalsePositionIter
    \/ FalsePositionExit
    \/ NewtonIter
    \/ SecantIter
    \/ ModifiedSecantIter

Spec == Init /\ [][Next]_vars

\* a call keeps running until it returns or raises
FairSpec == Spec /\ WF_vars(Next)


(***************************************************************************)
(* Properties.  `args` holds the arguments of the call, `visited` the      *)
(* positions at which incremental_search ran its loop body; neither is     *)
(* read by an action.                                                      *)
(***************************************************************************)
Refiners == {"bisection", "false_position", "newton_raphson", "secant",
             "modified_secant"}

Bracketing == {"bisection", "false_position"}

RAbs(p) == <<Abs(p[1]), p[2]>>

\* C1: a refiner call that does not divide by zero ends either in a number x
\* with |f(x)| < threshold or in None; before it ends it has no outcome.
C1_ResultContract ==
    method \in Refiners =>
        /\ pc = "loop" => result = Pending
        /\ (pc = "done" /\ result # Raised) =>
              \/ result = None
              \/ /\ result.kind = "value"
                 /\ RLt(RAbs(F(f, result.val)), threshold)

C1_Witness ==
    /\ method = "secant"
    /\ pc = "done"
    /\ result.kind = "value"
    /\ iteration >= 2

\* C2 (as claimed): incremental_search returns a count equal to the number of
\* intervals, and f(a)*f(b) <= 0 for every returned interval [a, b].
C2_EveryIntervalBrackets ==
    (method = "incremental_search" /\ pc = "done") =>
        /\ number_of_roots = Len(intervals)
        /\ \A i \in 1..Len(intervals) :
              Sign(RMul(F(f, intervals[i][1]), F(f, intervals[i][2]))) <= 0

\* C3 (as claimed): the loop body of a refiner never runs more than
\* max_iterations times, and a call that ends in None with lb <= ub has run it
\* max_iterations times.
C3_BodyRunsAtMostMaxIterations ==
    method \in Refiners =>
        /\ iteration <= max_iterations
        /\ (pc = "done" /\ result = None /\ RLe(lb, ub)) =>
              iteration = max_iterations

\* the denominator of the next estimate is zero
ZeroDenominator ==
    \/ method = "newton_raphson" /\ F(f_der, x) = Zero
    \/ method = "false_position" /\ RLe(lb, ub) /\ F(f, lb) = F(f, ub)
    \/ method = "secant" /\ F(f, x1) = F(f, x0)

\* C4: a pass that starts with a zero denominator ends the call in the
\* division-by-zero failure, never in a number or None.
C4_ZeroDenominatorRaises ==
    [][(pc = "loop" /\ ZeroDenominator) =>
          (pc' = "done" /\ result' = Raised /\ result' # None
           /\ result'.kind # "value")]_vars

C4_Witness ==
    /\ method = "newton_raphson"
    /\ result = Raised
    /\ iteration >= 2

\* f, a polynomial of degree 2, has one strict sign on all of [a, b]
NoZeroInside(c, a, b) ==
    LET v == RMul(<<-c[2], 1>>, RInv(<<2 * c[1], 1>>))
    IN  /\ Len(c) = 3
        /\ Sign(F(c, a)) * Sign(F(c, b)) > 0
        /\ (RLt(a, v) /\ RLt(v, b)) => Sign(F(c, v)) = Sign(F(c, a))

SameSignBracket ==
    /\ method = "bisection"
    /\ RLe(args.lb, args.ub)
    /\ NoZeroInside(f, args.lb, args.ub)

NextEstimate ==
    IF method = "bisection" THEN Mid(lb, ub)
    ELSE FalsePositionEstimate(f, lb, ub)

\* no further pass can change the outcome: the loop would exit, raise, or
\* leave the bracket as it is without converging
NoProgress ==
    \/ ~RLe(lb, ub)
    \/ NextEstimate = ZeroDivisionError
    \/ /\ ~Converged(F(f, NextEstimate), threshold)
       /\ Rebracket(f, lb, ub, NextEstimate) = <<lb, ub>>

\* C6 (as claimed): on a bracket lb < ub with an exact zero of f at an end,
\* bisection and false_position return a number, given enough iterations: a
\* call ends in None only while further passes would still narrow the bracket.
C6_EndpointZeroConverges ==
    ( /\ method \in Bracketing
      /\ pc = "done"
      /\ RLt(args.lb, args.ub)
      /\ (F(f, args.lb) = Zero \/ F(f, args.ub) = Zero) ) =>
        \/ result.kind = "value"
        \/ result = None /\ ~NoProgress

\* C7: the scan of main.py, f = x^2 - 7x + 10 on [-4, 8] in steps of 0.8,
\* returns 2 and the intervals [1.6, 2.4], [4.8, 5.6] in this order; 8 is the
\* last position sampled and no interval is emitted there.
C7_MainScan ==
    ( /\ method = "incremental_search"
      /\ f = Quadratic
      /\ args.lb = Rat(-4, 1)
      /\ ub = Rat(8, 1)
      /\ increment_length = Rat(4, 5)
      /\ pc = "done" ) =>
        /\ number_of_roots = 2
        /\ intervals = << <<Rat(8, 5), Rat(12, 5)>>, <<Rat(24, 5), Rat(28, 5)>> >>
        /\ RLe(intervals[1][1], Rat(2, 1)) /\ RLe(Rat(2, 1), intervals[1][2])
        /\ RLe(intervals[2][1], Rat(5, 1)) /\ RLe(Rat(5, 1), intervals[2][2])
        /\ visited[Len(visited)] = Rat(8, 1)
        /\ \A i \in 1..Len(intervals) : intervals[i][2] # Rat(44, 5)

C7_Witness ==
    /\ method = "incremental_search"
    /\ f = Quadratic
    /\ args.lb = Rat(-4, 1)
    /\ ub = Rat(8, 1)
    /\ increment_length = Rat(4, 5)
    /\ pc = "done"
    /\ Len(visited) = 16

\* the outcome of one pass of modified_secant on the arguments of the call
SingleShot ==
    LET e == ModifiedSecantEstimate(f, args.x0, args.dx)
    IN  IF e = ZeroDivisionError THEN Raised
        ELSE IF RLt(RAbs(F(f, e)), threshold) THEN Value(e)
        ELSE None

\* C8: modified_secant never changes x0 or dx, and its outcome is that of its
\* first pass whatever max_iterations is.
C8_ModifiedSecantSingleShot ==
    method = "modified_secant" =>
        /\ x0 = args.x0
        /\ dx = args.dx
        /\ pc = "done" => result = SingleShot

C8_Witness ==
    /\ method = "modified_secant"
    /\ pc = "done"
    /\ result = None
    /\ iteration >= 3

SignChangeBracket ==
    /\ method \in Bracketing
    /\ Sign(threshold) > 0
    /\ RLt(args.lb, args.ub)
    /\ SignChange(F(f, args.lb), F(f, args.ub))

BracketInvariant ==
    /\ RLt(lb, ub)
    /\ SignChange(F(f, lb), F(f, ub))
    /\ RLe(args.lb, lb)
    /\ RLe(ub, args.ub)
    /\ result # Raised

ExpectedSamples ==
    LET n == IF RLe(args.lb, ub)
             THEN LET q == RMul(RSub(ub, args.lb), RInv(increment_length))
                  IN  (q[1] \div q[2]) + 1
             ELSE 0
    IN  [k \in 1..n |-> RAdd(args.lb, RMul(<<k - 1, 1>>, increment_length))]

ScanTerminates ==
    /\ method = "incremental_search"
    /\ Sign(increment_length) > 0 \/ ~RLe(args.lb, ub)

ScanDiverges ==
    /\ method = "incremental_search"
    /\ Sign(increment_length) <= 0
    /\ RLe(args.lb, ub)

====
